---- MODULE Spec2Model ----
(***************************************************************************)
(* Model of the strict three-stage analysis pipeline of                    *)
(* backend/core/ai/analyzer.py (AIAnalyzer.analyze_files_strict_three_stage *)
(* and the stage methods it awaits).                                        *)
(*                                                                          *)
(* Floats are modelled as integers: scores as they are (50.0 -> 50),        *)
(* confidences in hundredths (0.3 -> 30).                                   *)
(*                                                                          *)
(* Candidates are the serialisable FileAnalysisInput values the caller in   *)
(* api/routes.py builds, so building a prompt does not raise; task          *)
(* cancellation (CancelledError, a BaseException) is outside the model.     *)
(*                                                                          *)
(* A second specification, SpecKB, models the knowledge base of             *)
(* backend/core/rag/cve_knowledge_base.py (CVEfixesKnowledgeBase): the       *)
(* store, the vector index with its metadata, their persisted files, the    *)
(* search and the rebuild of the index. Spec holds the knowledge base       *)
(* still and takes the outcome of a retrieval from RetrievalOutcomes;       *)
(* SpecKB holds the pipeline still. A third specification, SpecTwice,        *)
(* executes Stage 1 twice on the same candidates against a gateway that     *)
(* answers a prompt always with the same response. SpecStage3 runs Stage 3   *)
(* on a list of Stage 2 results with up to MaxFindings findings each.       *)
(* SpecGateway models _call_ai_api with the external service behind it,     *)
(* SpecTasks the TaskManager of backend/core/task_manager.py.               *)
(***************************************************************************)
EXTENDS Integers, Sequences, FiniteSets, TLC

\* ------------------------------------------------------------------ bounds
MaxFiles == 2
MaxEntries == 2
MaxVulns == 1
\* records the knowledge store can hold
MaxRecords == 2
\* findings of a Stage 2 result handed to Stage 3 on its own
MaxFindings == 2
\* requests the external service answers in the specification of the gateway
MaxRequests == 3

\* ------------------------------------------------------------ input domains
\* Paths of candidate files; a response may also name a path of no candidate.
Paths == {"a.py", "b.py"}
UnknownPath == "zz.py"
\* risk_score values a response may carry (one is outside [0,100]).
Scores == {-5, 40, 72, 85}
\* confidence values a response may carry, in hundredths.
Confidences == {90}
BatchSizes == {-1, 0, 1, 2}
Thresholds == {70, 101}

\* --------------------------------------------------------- program constants
Stage1FailScore == 50
Stage1FailConfidence == 30
MissingScore == 40
MissingConfidence == 30
ParseFailScore == 45
ParseFailConfidence == 20
Stage2DefaultScore == 85
Stage2DefaultConfidence == 80
\* asyncio.sleep(1) after a Stage 1 batch, asyncio.sleep(0.5) after a Stage 2
\* file, in milliseconds
Stage1PauseMs == 1000
Stage2PauseMs == 500

VARIABLES
    file_inputs,        \* the candidate list (FileAnalysisInput), argument
    stage1_batch_size,  \* argument
    risk_threshold,     \* argument
    pc,                 \* position of the orchestrator coroutine
    i,                  \* Stage 1 loop variable (offset of the current batch)
    stage1_results,     \* all_results of Stage 1
    high_risk_files,    \* Stage 1 results at or above the threshold, sorted
    high_risk_inputs,   \* the inputs handed to Stage 2
    j,                  \* Stage 2 loop position in high_risk_inputs
    stage2_results,     \* detailed_results of Stage 2
    k,                  \* Stage 3 loop position in stage2_results
    v,                  \* Stage 3 loop position in the vulnerabilities of file k
    enhanced_vulnerabilities, \* local list of _enhance_with_cve_and_generate_diff
    cve_context,        \* local of the same loop: the context of the last finding
    stage3_results,     \* enhanced_results of Stage 3
    calls,              \* history of external calls (gateway, retrieval, sleep)
    returned,           \* <<the returned dictionary's counters>>, or <<>> before
    error               \* the exception that left the pipeline, or "none"

\* CVEfixesKnowledgeBase
VARIABLES
    store,              \* cve_id of the rows of table cve_fixes
    vector_search_available, \* VECTOR_SEARCH_AVAILABLE (faiss and the encoder import)
    embedding_model,    \* self.embedding_model: "loaded" or "none"
    index,              \* self.index: <<>> for None, or <<the ids whose vectors it holds>>
    metadata,           \* self.metadata: [cve_ids, vectors]
    index_file,         \* cve_index.bin: <<>> if missing, or <<content>>
    metadata_file,      \* cve_metadata.json: <<>> if missing, or <<content>>
    rebuild_pc,         \* position of build_vector_knowledge_base
    cve_records,        \* rows fetched by the rebuild
    next_record,        \* rebuild loop position in cve_records
    before_rebuild,     \* the ids in index, metadata and files when the rebuild started
    last_search         \* <<arguments and outcome of the search that has just
                        \* returned>>, <<>> once another operation has run

pipeline_vars ==
    <<file_inputs, stage1_batch_size, risk_threshold, pc, i, stage1_results,
      high_risk_files, high_risk_inputs, j, stage2_results, k, v,
      enhanced_vulnerabilities, cve_context, stage3_results, calls, returned,
      error>>

kb_vars ==
    <<store, vector_search_available, embedding_model, index, metadata,
      index_file, metadata_file, rebuild_pc, cve_records, next_record,
      before_rebuild, last_search>>

\* Two executions of Stage 1 against a stub gateway
VARIABLES
    gateway,            \* the stub: the response to each prompt
    run,                \* the execution of Stage 1 under way: 1 or 2
    first_results       \* what the first execution returned, <<>> before

stub_vars == <<gateway, run, first_results>>

\* _call_ai_api and the external service behind it
VARIABLES
    service,            \* what the service does with each request it will get
    requests,           \* requests sent to the service so far
    gateway_calls       \* history of the calls of _call_ai_api

gateway_vars == <<service, requests, gateway_calls>>

\* TaskManager
VARIABLES
    tasks,              \* self.tasks: task_id -> TaskInfo
    last_op             \* <<the TaskManager operation that has just returned>>

task_vars == <<tasks, last_op>>

vars == <<pipeline_vars, kb_vars, stub_vars, gateway_vars, task_vars>>

\* ------------------------------------------------------------------ helpers
Range(s) == {s[n] : n \in 1..Len(s)}

SeqsUpTo(S, n) == UNION {[1..m -> S] : m \in 0..n}

Min(a, b) == IF a < b THEN a ELSE b

\* Mutant of Slice: s[:hi], the slice starts at the head of the list again
Slice_FromHead(s, lo, hi) == SubSeq(s, 1, Min(hi, Len(s)))

\* s[lo..hi] of a Python slice s[lo:hi] with 0-based lo, clipped at the end
Slice(s, lo, hi) == SubSeq(s, lo + 1, Min(hi, Len(s)))

\* A Python str built by concatenation, or a value that is no str
Str(s) == [is_str |-> TRUE, parts |-> <<s>>]
NonStr == [is_str |-> FALSE, parts |-> <<>>]
Concat(a, s) == [is_str |-> TRUE, parts |-> Append(a.parts, s)]

\* ------------------------------------------------------------- data classes
FileAnalysisInput(n, p) == [id |-> n, file_path |-> p]

AIAnalysisResult(p, score, vulns, conf, reasoning, risk, summ) ==
    [file_path |-> p, ai_risk_score |-> score, vulnerabilities |-> vulns,
     confidence |-> conf, analysis_reasoning |-> reasoning,
     overall_risk |-> risk, summary |-> summ]

\* ------------------------------------------------------- gateway responses
\* What _call_ai_api can do for a Stage 1 prompt: raise, or return a text.
\* A text is empty, has no JSON object, has an undecodable JSON object, has an
\* object whose entries are not of the expected types, or decodes to a list of
\* batch_risk_scores entries.
ScoreEntry == [file_path : Paths \cup {UnknownPath}, risk_score : Scores,
               confidence : Confidences]

Stage1Responses ==
    {[kind |-> kd, scores |-> <<>>] :
        kd \in {"Timeout", "TransportError", "empty", "no_json", "bad_json",
                "bad_entry"}}
    \cup {[kind |-> "scores", scores |-> s] : s \in SeqsUpTo(ScoreEntry, MaxEntries)}

Raises(resp) == resp.kind \in {"Timeout", "TransportError"}

\* ------------------------------------------------------------------ Stage 1
\* The result built for one entry of the response
ScoredResult(score_data) ==
    AIAnalysisResult(score_data.file_path, score_data.risk_score, <<>>,
                     score_data.confidence, Str("given"), "given",
                     Str("stage1_risk_score"))

MissingResult(fi) ==
    AIAnalysisResult(fi.file_path, MissingScore, <<>>, MissingConfidence,
                     Str("not_found_in_response"), "medium",
                     Str("default_risk_score"))

ParseFailResult(fi) ==
    AIAnalysisResult(fi.file_path, ParseFailScore, <<>>, ParseFailConfidence,
                     Str("stage1_parse_failed"), "medium",
                     Str("parse_failed_default"))

Stage1FailResult(fi) ==
    AIAnalysisResult(fi.file_path, Stage1FailScore, <<>>, Stage1FailConfidence,
                     Str("stage1_batch_failed_default"), "medium",
                     Str("stage1_exception"))

\* Mutant of ScoredResults: an entry is taken whether its path is in the
\* batch or not
RECURSIVE ScoredResults_AnyPath(_, _)
ScoredResults_AnyPath(scores, batch) ==
    IF scores = <<>> THEN <<>>
    ELSE <<ScoredResult(Head(scores))>> \o ScoredResults_AnyPath(Tail(scores), batch)

\* for score_data in scores: if file_path in file_path_map: results.append(...)
RECURSIVE ScoredResults(_, _)
ScoredResults(scores, batch) ==
    IF scores = <<>> THEN <<>>
    ELSE IF Head(scores).file_path \in {fi.file_path : fi \in Range(batch)}
         THEN <<ScoredResult(Head(scores))>> \o ScoredResults(Tail(scores), batch)
         ELSE ScoredResults(Tail(scores), batch)

\* for file_input in batch: if file_input.file_path not in scored_paths: ...
RECURSIVE MissingResults(_, _)
MissingResults(batch, scored_paths) ==
    IF batch = <<>> THEN <<>>
    ELSE IF Head(batch).file_path \notin scored_paths
         THEN <<MissingResult(Head(batch))>> \o MissingResults(Tail(batch), scored_paths)
         ELSE MissingResults(Tail(batch), scored_paths)

\* [default result for fi in batch], the parser's and the except branch's
ParseFailResults(batch) == [n \in 1..Len(batch) |-> ParseFailResult(batch[n])]
Stage1FailResults(batch) == [n \in 1..Len(batch) |-> Stage1FailResult(batch[n])]

_parse_stage1_scoring_response(response, batch) ==
    IF response.kind = "scores"
    THEN LET results == ScoredResults(response.scores, batch)
             scored_paths == {r.file_path : r \in Range(results)}
         IN  results \o MissingResults(batch, scored_paths)
    ELSE ParseFailResults(batch)

\* Mutant of BatchResults: the except branch reuses the parser's default
BatchResults_ParseDefaultOnRaise(response, batch) ==
    IF Raises(response)
    THEN ParseFailResults(batch)
    ELSE _parse_stage1_scoring_response(response, batch)

\* _build_stage1_batch_scoring_prompt: the instructions, one section per file
\* of the batch in the batch's order, and the number of files to score
_build_stage1_batch_scoring_prompt(batch) ==
    [sections |-> [n \in 1..Len(batch) |-> batch[n]], expected |-> Len(batch)]

\* One iteration of the loop of _stage1_batch_risk_scoring: the batch's results
BatchResults(response, batch) ==
    IF Raises(response)
    THEN Stage1FailResults(batch)
    ELSE _parse_stage1_scoring_response(response, batch)

\* ------------------------------------------- selection of high-risk files
\* list.sort(key=ai_risk_score, reverse=True): stable, descending
RECURSIVE InsertByScore(_, _)
InsertByScore(sorted, r) ==
    IF sorted = <<>> THEN <<r>>
    ELSE IF Head(sorted).ai_risk_score >= r.ai_risk_score
         THEN <<Head(sorted)>> \o InsertByScore(Tail(sorted), r)
         ELSE <<r>> \o sorted

RECURSIVE SortByScoreDesc(_)
SortByScoreDesc(s) ==
    IF s = <<>> THEN <<>>
    ELSE InsertByScore(SortByScoreDesc(SubSeq(s, 1, Len(s) - 1)), s[Len(s)])

IsHighRisk(result, threshold) == result.ai_risk_score >= threshold

HighRiskFiles(results, threshold) ==
    SortByScoreDesc(SelectSeq(results, LAMBDA r : IsHighRisk(r, threshold)))

HighRiskInputs(inputs, high_risk) ==
    SelectSeq(inputs,
              LAMBDA fi : \E n \in 1..Len(high_risk) :
                              high_risk[n].file_path = fi.file_path)

\* ------------------------------------------------------------------ Stage 2
VulnerabilityInfo(n) ==
    [title |-> n, severity |-> "high", cwe_id |-> "CWE-89",
     description |-> "description", location |-> n, code_snippet |-> "snippet",
     impact |-> "impact", remediation |-> "original", confidence |-> 95]

\* What _call_ai_api can do for a Stage 2 prompt: raise, or return a text that
\* is empty, has no JSON object, has an undecodable one, has one with a field of
\* the wrong type, or decodes to an analysis with some vulnerabilities and a
\* summary that is a string or not.
Stage2Responses ==
    {[kind |-> kd, vulnerabilities |-> <<>>, summary |-> NonStr] :
        kd \in {"Timeout", "TransportError", "empty", "no_json", "bad_json",
                "bad_field"}}
    \cup {[kind |-> "analysis",
           vulnerabilities |-> [n \in 1..m |-> VulnerabilityInfo(n)],
           summary |-> sm] :
            m \in 0..MaxVulns, sm \in {Str("summary"), NonStr}}

\* _parse_detailed_analysis_response: <<result>>, or <<>> for None; an exception
\* that is no JSONDecodeError leaves the parser
ParseRaises(response) == response.kind = "bad_field"

_parse_detailed_analysis_response(response, file_input) ==
    IF response.kind = "analysis"
    THEN <<AIAnalysisResult(file_input.file_path, Stage2DefaultScore,
                            response.vulnerabilities, Stage2DefaultConfidence,
                            Str("detailed_analysis"), "given", response.summary)>>
    ELSE <<>>

\* Mutant of _analyze_single_file_detailed: an analysis without
\* vulnerabilities is taken for a failure
_analyze_single_file_detailed_DropsEmpty(response, file_input) ==
    IF Raises(response) \/ ParseRaises(response) \/ response.vulnerabilities = <<>>
    THEN <<>>
    ELSE _parse_detailed_analysis_response(response, file_input)

_analyze_single_file_detailed(response, file_input) ==
    IF Raises(response) \/ ParseRaises(response)
    THEN <<>>
    ELSE _parse_detailed_analysis_response(response, file_input)

\* ------------------------------------------------------------------ Stage 3
RetrievalOutcomes == {"records", "no_records", "raises"}
ReasoningOutcomes == {"text", "empty", "Timeout", "TransportError"}

\* generate_diff_context_for_ai: the context text handed to the prompt
generate_diff_context_for_ai(retrieval) ==
    CASE retrieval = "records" -> "cve_cases"
      [] retrieval = "no_records" -> "no_cases_found"
      [] retrieval = "raises" -> "context_generation_failed"

\* _generate_cve_enhanced_remediation: the response, or the old remediation
_generate_cve_enhanced_remediation(vulnerability, reasoning) ==
    CASE reasoning = "text" -> "enhanced"
      [] reasoning = "empty" -> ""
      [] OTHER -> vulnerability.remediation

\* Mutant of EnhancedVulnerability: the finding is built anew and only the
\* remediation is filled in
EnhancedVulnerability_Rebuilt(vuln, reasoning) ==
    [VulnerabilityInfo(1) EXCEPT
        !.remediation = _generate_cve_enhanced_remediation(vuln, reasoning)]

EnhancedVulnerability(vuln, reasoning) ==
    [vuln EXCEPT !.remediation = _generate_cve_enhanced_remediation(vuln, reasoning)]

\* The result _enhance_with_cve_and_generate_diff returns; building it raises
\* TypeError when the summary is no string, and Stage 3 then keeps the original
EnhancedResult(analysis_result, enhanced) ==
    IF analysis_result.summary.is_str
    THEN [analysis_result EXCEPT
             !.vulnerabilities = enhanced,
             !.analysis_reasoning = Concat(@, "[cve_enhanced]"),
             !.summary = Concat(@, "(cve_enhanced)")]
    ELSE analysis_result

\* ------------------------------------------------------------- aggregation
\* 1 for v in r.vulnerabilities if hasattr(v, "cve_id") and v.cve_id
RECURSIVE CveLinks(_)
CveLinks(vulns) ==
    IF vulns = <<>> THEN 0
    ELSE (IF "cve_id" \in DOMAIN Head(vulns) THEN 1 ELSE 0) + CveLinks(Tail(vulns))

\* sum(len(r.vulnerabilities) for r in stage3_results)
RECURSIVE TotalVulnerabilities(_)
TotalVulnerabilities(s3) ==
    IF s3 = <<>> THEN 0
    ELSE Len(Head(s3).vulnerabilities) + TotalVulnerabilities(Tail(s3))

RECURSIVE TotalCveLinks(_)
TotalCveLinks(s3) ==
    IF s3 = <<>> THEN 0
    ELSE CveLinks(Head(s3).vulnerabilities) + TotalCveLinks(Tail(s3))

\* analysis_end_time - analysis_start_time in milliseconds: the clock of the
\* model advances in asyncio.sleep only (the awaited calls take no time)
RECURSIVE TotalTime(_)
TotalTime(history) ==
    IF history = <<>> THEN 0
    ELSE (CASE history[1].op = "sleep" /\ history[1].stage = 1 -> Stage1PauseMs
            [] history[1].op = "sleep" /\ history[1].stage = 2 -> Stage2PauseMs
            [] OTHER -> 0)
         + TotalTime(Tail(history))

\* Mutant of ReturnValue: analyzed_files counts the files handed to Stage 2
ReturnValue_AnalyzedIsHighRisk(inputs, high_risk, threshold, s2, s3, history) ==
    [total_files |-> Len(inputs),
     high_risk_files |-> Len(high_risk),
     risk_threshold |-> threshold,
     analyzed_files |-> Len(high_risk),
     enhanced_files |-> Len(s3),
     total_files_analyzed |-> Len(inputs),
     high_risk_files_found |-> Len(high_risk),
     vulnerabilities_discovered |-> TotalVulnerabilities(s3),
     cve_references_generated |-> TotalCveLinks(s3),
     average_time_per_file |-> IF inputs # <<>>
                               THEN TotalTime(history) \div Len(inputs)
                               ELSE 0]

ReturnValue(inputs, high_risk, threshold, s2, s3, history) ==
    [total_files |-> Len(inputs),
     high_risk_files |-> Len(high_risk),
     risk_threshold |-> threshold,
     analyzed_files |-> Len(s2),
     enhanced_files |-> Len(s3),
     total_files_analyzed |-> Len(inputs),
     high_risk_files_found |-> Len(high_risk),
     vulnerabilities_discovered |-> TotalVulnerabilities(s3),
     cve_references_generated |-> TotalCveLinks(s3),
     average_time_per_file |-> IF inputs # <<>>
                               THEN TotalTime(history) \div Len(inputs)
                               ELSE 0]

\* ------------------------------------------------------------ call history
Infer(stage, target, outcome) ==
    [op |-> "infer", stage |-> stage, target |-> target, outcome |-> outcome]
\* The retrieval call for a finding of a file, with the context it returned
Search(file, context) ==
    [op |-> "search", stage |-> 3, target |-> file, outcome |-> context]
Sleep(stage) ==
    [op |-> "sleep", stage |-> stage, target |-> 0, outcome |-> "slept"]

\* The Stage 1 gateway call of the batch at an offset, with the prompt it sends
InferBatch(offset, batch, outcome) ==
    [op |-> "infer", stage |-> 1, target |-> offset, outcome |-> outcome,
     prompt |-> _build_stage1_batch_scoring_prompt(batch)]

Stage1Outcome(response) ==
    IF Raises(response) THEN "raised"
    ELSE IF response.kind = "scores" THEN "scored" ELSE "undecodable"

\* Whether the Stage 3 call returned a text or raised
Stage3Outcome(reasoning) ==
    IF reasoning \in {"text", "empty"} THEN "returned" ELSE "raised"

\* Whether the Stage 2 call returned a text that decodes to an analysis
Stage2Outcome(response) ==
    IF response.kind = "analysis" THEN "decoded" ELSE "failed"

\* ================================================ knowledge base: the data
\* The rows table cve_fixes can hold, by cve_id, and their columns
CveIds == 1..MaxRecords

RowLanguage(id) == IF id % 2 = 1 THEN "python" ELSE "java"
RowSeverity(id) == IF id % 2 = 1 THEN "medium" ELSE "critical"
RowCvss(id) == id
RowDescription(id) == IF id = 2 THEN "xss" ELSE "sql"

\* Arguments of a search: the query text (stripped), the filters, the limit
QueryTexts == {"", "xss"}
QueryLanguages == {"", "python"}
QuerySeverities == {""}
Limits == {1, 2}
Queries ==
    [text : QueryTexts, language : QueryLanguages, severity : QuerySeverities,
     limit : Limits]

\* What the environment of one search does: the encoder raises, the
\* nearest-neighbour search raises (it is called only if the encoder returned),
\* sqlite raises
Faults ==
    {f \in [encode : BOOLEAN, nn : BOOLEAN, db : BOOLEAN] : ~(f.encode /\ f.nn)}

\* The value a function returns (raised: an exception left it instead)
Returned(value) == [raised |-> FALSE, value |-> value]

\* VectorizedCVE.to_dict() of the row: the entry of metadata["vectors"]
to_dict(id) ==
    [id |-> id, cve_id |-> id,
     metadata |-> [programming_language |-> RowLanguage(id),
                   severity |-> RowSeverity(id)],
     similarity_score |-> <<>>]

EmptyMetadata == [cve_ids |-> <<>>, vectors |-> <<>>]

\* ------------------------------------------------------- _text_search
\* fts MATCH ?: the rows whose indexed text holds the query text
Matches(text, id) == RowDescription(id) = text

\* ORDER BY rank
RECURSIVE OrderedByRank(_)
OrderedByRank(rows) ==
    IF rows = {} THEN <<>>
    ELSE LET first == CHOOSE x \in rows : \A y \in rows : x <= y
         IN  <<first>> \o OrderedByRank(rows \ {first})

SeverityRank(sev) ==
    CASE sev = "critical" -> 1
      [] sev = "high" -> 2
      [] sev = "medium" -> 3
      [] OTHER -> 4

\* ORDER BY CASE severity ... END, cvss_score DESC
Precedes(x, y) ==
    \/ SeverityRank(RowSeverity(x)) < SeverityRank(RowSeverity(y))
    \/ /\ SeverityRank(RowSeverity(x)) = SeverityRank(RowSeverity(y))
       /\ RowCvss(x) >= RowCvss(y)

RECURSIVE OrderedBySeverity(_)
OrderedBySeverity(rows) ==
    IF rows = {} THEN <<>>
    ELSE LET first == CHOOSE x \in rows : \A y \in rows : Precedes(x, y)
         IN  <<first>> \o OrderedBySeverity(rows \ {first})

\* The rows of the WHERE clause built from the filters
Where(rows, query) ==
    {id \in rows :
        /\ query.language = "" \/ RowLanguage(id) = query.language
        /\ query.severity = "" \/ RowSeverity(id) = query.severity}

\* dict(row) of a fetched row
Row(id) == [cve_id |-> id, similarity_score |-> <<>>]

\* The SELECT of _text_search with its LIMIT ?
Select(rows, query) ==
    LET ordered == IF query.text # ""
                   THEN OrderedByRank({id \in Where(rows, query) :
                                          Matches(query.text, id)})
                   ELSE OrderedBySeverity(Where(rows, query))
    IN  [m \in 1..Min(query.limit, Len(ordered)) |-> Row(ordered[m])]

\* _text_search: the rows fetched, or [] when sqlite raises
_text_search(rows, query, faults) ==
    IF faults.db THEN Returned(<<>>) ELSE Returned(Select(rows, query))

\* get_fix_details: <<details>>, or <<>> for None
get_fix_details(rows, cve_id, faults) ==
    IF faults.db \/ cve_id \notin rows THEN <<>> ELSE <<[cve_id |-> cve_id]>>

\* ----------------------------------------------------- _vector_search
\* L2 distance between the embedding of the query text and the vector of a row
Distance(text, id) == IF RowDescription(id) = text THEN id ELSE 10 + id

\* 1.0 / (1.0 + distance), in thousandths
Similarity(distance) == 1000 \div (1 + distance)

\* Positions of the index, nearest vector first
RECURSIVE NearestFirst(_, _, _)
NearestFirst(positions, ids, text) ==
    IF positions = {} THEN <<>>
    ELSE LET first == CHOOSE p \in positions : \A q \in positions :
                          \/ Distance(text, ids[p]) < Distance(text, ids[q])
                          \/ /\ Distance(text, ids[p]) = Distance(text, ids[q])
                             /\ p <= q
         IN  <<first>> \o NearestFirst(positions \ {first}, ids, text)

\* index.search(query_vector, k): k indices (0-based, -1 where the index has
\* fewer vectors), nearest first
IndexSearch(ids, text, kk) ==
    LET order == NearestFirst(1..Len(ids), ids, text)
    IN  [m \in 1..kk |-> IF m <= Len(order) THEN order[m] - 1 ELSE -1]

\* next((item for item in vectors if item["id"] == cve_id), None): its
\* position, or 0 for None
EntryOf(vectors, cve_id) ==
    LET hits == {p \in 1..Len(vectors) : vectors[p].id = cve_id}
    IN  IF hits = {} THEN 0 ELSE CHOOSE p \in hits : \A q \in hits : p <= q

Passes(entry, query) ==
    /\ query.language = "" \/ entry.metadata.programming_language = query.language
    /\ query.severity = "" \/ entry.metadata.severity = query.severity

\* The filter loop of _vector_search over the indices found: the entries of
\* metadata["vectors"] after the loop (similarity_score is written into the
\* entry itself) and the positions of the entries appended to results
RECURSIVE FilterLoop(_, _, _, _, _)
FilterLoop(indices, ids, md, query, acc) ==
    IF indices = <<>> THEN acc
    ELSE LET idx == Head(indices)
             pos == IF idx >= 0 /\ idx < Len(md.cve_ids)
                    THEN EntryOf(acc.vectors, md.cve_ids[idx + 1])
                    ELSE 0
             hit == pos # 0 /\ Passes(acc.vectors[pos], query)
             score == Similarity(Distance(query.text, ids[idx + 1]))
         IN  FilterLoop(Tail(indices), ids, md, query,
                 IF hit
                 THEN [vectors |-> [acc.vectors EXCEPT
                                       ![pos].similarity_score = <<score>>],
                       results |-> Append(acc.results, pos)]
                 ELSE acc)

\* sorted(results, key=similarity_score, reverse=True): stable, descending
RECURSIVE InsertBySimilarity(_, _, _)
InsertBySimilarity(sorted, pos, vectors) ==
    IF sorted = <<>> THEN <<pos>>
    ELSE IF vectors[Head(sorted)].similarity_score[1]
              >= vectors[pos].similarity_score[1]
         THEN <<Head(sorted)>> \o InsertBySimilarity(Tail(sorted), pos, vectors)
         ELSE <<pos>> \o sorted

RECURSIVE SortBySimilarity(_, _)
SortBySimilarity(s, vectors) ==
    IF s = <<>> THEN <<>>
    ELSE InsertBySimilarity(SortBySimilarity(SubSeq(s, 1, Len(s) - 1), vectors),
                            s[Len(s)], vectors)

\* The enrichment loop: the details of each result the store still has
RECURSIVE Enriched(_, _, _, _)
Enriched(results, vectors, rows, faults) ==
    IF results = <<>> THEN <<>>
    ELSE LET result == vectors[Head(results)]
             details == get_fix_details(rows, result.cve_id, faults)
         IN  (IF details # <<>>
              THEN <<[cve_id |-> details[1].cve_id,
                      similarity_score |-> result.similarity_score]>>
              ELSE <<>>)
             \o Enriched(Tail(results), vectors, rows, faults)

\* Mutant of _vector_search: index.search is asked for limit neighbours
_vector_search_NoOverfetch(rows, ids, md, query, faults) ==
    IF faults.encode \/ faults.nn
    THEN [raised |-> TRUE, value |-> <<>>, metadata |-> md]
    ELSE LET after == FilterLoop(IndexSearch(ids, query.text, query.limit),
                                 ids, md, query,
                                 [vectors |-> md.vectors, results |-> <<>>])
             best == SubSeq(SortBySimilarity(after.results, after.vectors), 1,
                            Min(query.limit, Len(after.results)))
         IN  [raised |-> FALSE,
              value |-> Enriched(best, after.vectors, rows, faults),
              metadata |-> [md EXCEPT !.vectors = after.vectors]]

\* _vector_search: what it returns and the metadata it leaves, or the
\* exception of the encoder or of the index
_vector_search(rows, ids, md, query, faults) ==
    IF faults.encode \/ faults.nn
    THEN [raised |-> TRUE, value |-> <<>>, metadata |-> md]
    ELSE LET after == FilterLoop(IndexSearch(ids, query.text, query.limit * 3),
                                 ids, md, query,
                                 [vectors |-> md.vectors, results |-> <<>>])
             best == SubSeq(SortBySimilarity(after.results, after.vectors), 1,
                            Min(query.limit, Len(after.results)))
         IN  [raised |-> FALSE,
              value |-> Enriched(best, after.vectors, rows, faults),
              metadata |-> [md EXCEPT !.vectors = after.vectors]]

\* ------------------------------------- search_similar_vulnerabilities
\* The condition of the vector path
VectorPath(available, model, ix) ==
    available /\ ix # <<>> /\ model # "none" /\ Len(ix[1]) > 0

\* Mutant of search_similar_vulnerabilities: no try around the vector path
search_similar_vulnerabilities_NoTry(rows, available, model, ix, md, query, faults) ==
    IF VectorPath(available, model, ix)
    THEN LET found == _vector_search(rows, ix[1], md, query, faults)
         IN  [path |-> "vector", raised |-> found.raised, value |-> found.value,
              metadata |-> found.metadata]
    ELSE LET found == _text_search(rows, query, faults)
         IN  [path |-> "lexical", raised |-> found.raised,
              value |-> found.value, metadata |-> md]

\* search_similar_vulnerabilities: the path that answered, the result or the
\* exception, and the metadata the call leaves
search_similar_vulnerabilities(rows, available, model, ix, md, query, faults) ==
    LET vector == _vector_search(rows, ix[1], md, query, faults)
        text == _text_search(rows, query, faults)
    IN  IF VectorPath(available, model, ix) /\ ~vector.raised
        THEN [path |-> "vector", raised |-> FALSE, value |-> vector.value,
              metadata |-> vector.metadata]
        ELSE [path |-> "lexical", raised |-> text.raised, value |-> text.value,
              metadata |-> md]

\* ------------------------------------------------- _init_vector_index
\* What the constructor leaves in embedding_model, index and metadata
_init_vector_index(available, model_loads, ifile, mfile) ==
    IF ~available \/ ~model_loads
    THEN [embedding_model |-> "none", index |-> <<>>, metadata |-> EmptyMetadata]
    ELSE IF ifile # <<>> /\ mfile # <<>>
         THEN [embedding_model |-> "loaded", index |-> <<ifile[1]>>,
               metadata |-> mfile[1]]
         ELSE [embedding_model |-> "loaded", index |-> <<<<>>>>,
               metadata |-> EmptyMetadata]

\* The metadata of an index built over the rows ids, in that order
BuiltMetadata(ids) ==
    [cve_ids |-> ids, vectors |-> [m \in 1..Len(ids) |-> to_dict(ids[m])]]

\* The files a deployment starts with: none, or those of a finished build
PersistedFiles(rows) ==
    {[index_file |-> <<>>, metadata_file |-> <<>>]}
    \cup (IF rows = {} THEN {}
          ELSE {[index_file |-> <<OrderedBySeverity(rows)>>,
                 metadata_file |-> <<BuiltMetadata(OrderedBySeverity(rows))>>]})

\* No call of the gateway on its own, no task
GatewayStill ==
    /\ service = <<>>
    /\ requests = 0
    /\ gateway_calls = <<>>

TasksStill ==
    /\ tasks = <<>>
    /\ last_op = <<>>

\* The pipeline, not started, for the specification of the knowledge base
PipelineStill ==
    /\ file_inputs = <<>>
    /\ stage1_batch_size = 1
    /\ risk_threshold = 70
    /\ pc = "idle"
    /\ i = 0
    /\ stage1_results = <<>>
    /\ high_risk_files = <<>>
    /\ high_risk_inputs = <<>>
    /\ j = 1
    /\ stage2_results = <<>>
    /\ k = 1
    /\ v = 1
    /\ enhanced_vulnerabilities = <<>>
    /\ cve_context = "unset"
    /\ stage3_results = <<>>
    /\ calls = <<>>
    /\ returned = <<>>
    /\ error = "none"

\* The knowledge base, without vector search over an empty store, for the
\* specification of the pipeline
KnowledgeBaseStill ==
    /\ store = {}
    /\ vector_search_available = FALSE
    /\ embedding_model = "none"
    /\ index = <<>>
    /\ metadata = EmptyMetadata
    /\ index_file = <<>>
    /\ metadata_file = <<>>
    /\ rebuild_pc = "idle"
    /\ cve_records = <<>>
    /\ next_record = 1
    /\ before_rebuild = <<>>
    /\ last_search = <<>>

\* CVEfixesKnowledgeBase() has been constructed over a store and the files of
\* an earlier build, if any
InitKB ==
    /\ PipelineStill
    /\ GatewayStill
    /\ TasksStill
    /\ gateway = <<>>
    /\ run = 1
    /\ first_results = <<>>
    /\ store \in SUBSET CveIds
    /\ vector_search_available \in BOOLEAN
    /\ \E model_loads \in BOOLEAN, files \in PersistedFiles(store) :
          LET loaded == _init_vector_index(vector_search_available, model_loads,
                                           files.index_file, files.metadata_file)
          IN  /\ index_file = files.index_file
              /\ metadata_file = files.metadata_file
              /\ embedding_model = loaded.embedding_model
              /\ index = loaded.index
              /\ metadata = loaded.metadata
    /\ rebuild_pc = "idle"
    /\ cve_records = <<>>
    /\ next_record = 1
    /\ before_rebuild = <<>>
    /\ last_search = <<>>

\* ------------------------------------------- actions of the knowledge base
\* search_similar_vulnerabilities is called
SearchSimilar ==
    /\ UNCHANGED <<pipeline_vars, stub_vars, gateway_vars, task_vars>>
    /\ \E query \in Queries, faults \in Faults :
          LET out == search_similar_vulnerabilities(store, vector_search_available,
                         embedding_model, index, metadata, query, faults)
          IN  /\ last_search' = <<[query |-> query, path |-> out.path,
                                   raised |-> out.raised, results |-> out.value]>>
              /\ metadata' = out.metadata
    /\ UNCHANGED <<store, vector_search_available, embedding_model, index,
                   index_file, metadata_file, rebuild_pc, cve_records, next_record,
                   before_rebuild>>

\* add_cve_fix: INSERT OR REPLACE INTO cve_fixes
add_cve_fix ==
    /\ UNCHANGED <<pipeline_vars, stub_vars, gateway_vars, task_vars>>
    /\ \E id \in CveIds : store' = store \cup {id}
    /\ UNCHANGED <<vector_search_available, embedding_model, index, metadata,
                   index_file, metadata_file, rebuild_pc, cve_records, next_record,
                   before_rebuild>>
    /\ last_search' = <<>>

\* build_vector_knowledge_base up to its loop: _create_new_index, the SELECT
RebuildStart ==
    /\ UNCHANGED <<pipeline_vars, stub_vars, gateway_vars, task_vars>>
    /\ rebuild_pc = "idle"
    /\ vector_search_available
    /\ embedding_model # "none"
    /\ before_rebuild' = <<[index |-> index, cve_ids |-> metadata.cve_ids,
                            index_file |-> index_file,
                            file_cve_ids |-> IF metadata_file = <<>> THEN <<>>
                                             ELSE <<metadata_file[1].cve_ids>>]>>
    /\ index' = <<<<>>>>
    /\ metadata' = EmptyMetadata
    /\ cve_records' = OrderedBySeverity(store)
    /\ next_record' = 1
    /\ rebuild_pc' = "adding"
    /\ UNCHANGED <<store, vector_search_available, embedding_model, index_file,
                   metadata_file>>
    /\ last_search' = <<>>

\* Mutant of add_to_vector_index: a call that fails has added its vector to
\* the index before
add_to_vector_index_Torn ==
    /\ UNCHANGED <<pipeline_vars, stub_vars, gateway_vars, task_vars>>
    /\ rebuild_pc = "adding"
    /\ next_record <= Len(cve_records)
    /\ \E encodes \in BOOLEAN :
          IF encodes
          THEN /\ index' = <<Append(index[1], cve_records[next_record])>>
               /\ metadata' =
                     [cve_ids |-> Append(metadata.cve_ids, cve_records[next_record]),
                      vectors |-> Append(metadata.vectors, to_dict(cve_records[next_record]))]
               /\ rebuild_pc' = "write_index"
               /\ next_record' = next_record
          ELSE /\ index' = <<Append(index[1], cve_records[next_record])>>
               /\ next_record' = next_record + 1
               /\ UNCHANGED <<metadata, rebuild_pc>>
    /\ UNCHANGED <<store, vector_search_available, embedding_model, index_file,
                   metadata_file, cve_records, before_rebuild>>
    /\ last_search' = <<>>

\* add_to_vector_index up to _save_vector_index: the vector and the metadata
\* of record next_record are appended, or the encoder raises and the record is skipped
add_to_vector_index ==
    /\ UNCHANGED <<pipeline_vars, stub_vars, gateway_vars, task_vars>>
    /\ rebuild_pc = "adding"
    /\ next_record <= Len(cve_records)
    /\ \E encodes \in BOOLEAN :
          IF encodes
          THEN /\ index' = <<Append(index[1], cve_records[next_record])>>
               /\ metadata' =
                     [cve_ids |-> Append(metadata.cve_ids, cve_records[next_record]),
                      vectors |-> Append(metadata.vectors, to_dict(cve_records[next_record]))]
               /\ rebuild_pc' = "write_index"
               /\ next_record' = next_record
          ELSE /\ next_record' = next_record + 1
               /\ UNCHANGED <<index, metadata, rebuild_pc>>
    /\ UNCHANGED <<store, vector_search_available, embedding_model, index_file,
                   metadata_file, cve_records, before_rebuild>>
    /\ last_search' = <<>>

\* _save_vector_index, faiss.write_index
WriteIndexFile ==
    /\ UNCHANGED <<pipeline_vars, stub_vars, gateway_vars, task_vars>>
    /\ rebuild_pc = "write_index"
    /\ index_file' = <<index[1]>>
    /\ rebuild_pc' = "write_metadata"
    /\ UNCHANGED <<store, vector_search_available, embedding_model, index,
                   metadata, metadata_file, cve_records, next_record, before_rebuild>>
    /\ last_search' = <<>>

\* _save_vector_index, json.dump(self.metadata); the loop goes to the next record
WriteMetadataFile ==
    /\ UNCHANGED <<pipeline_vars, stub_vars, gateway_vars, task_vars>>
    /\ rebuild_pc = "write_metadata"
    /\ metadata_file' = <<metadata>>
    /\ next_record' = next_record + 1
    /\ rebuild_pc' = "adding"
    /\ UNCHANGED <<store, vector_search_available, embedding_model, index,
                   metadata, index_file, cve_records, before_rebuild>>
    /\ last_search' = <<>>

\* The loop of build_vector_knowledge_base ends: the batch is saved once more
\* and the function returns
RebuildDone ==
    /\ UNCHANGED <<pipeline_vars, stub_vars, gateway_vars, task_vars>>
    /\ rebuild_pc = "adding"
    /\ next_record > Len(cve_records)
    /\ index_file' = IF cve_records # <<>> THEN <<index[1]>> ELSE index_file
    /\ metadata_file' = IF cve_records # <<>> THEN <<metadata>> ELSE metadata_file
    /\ rebuild_pc' = "done"
    /\ UNCHANGED <<store, vector_search_available, embedding_model, index,
                   metadata, cve_records, next_record, before_rebuild>>
    /\ last_search' = <<>>

\* An exception leaves the try of build_vector_knowledge_base, or the process
\* is stopped: the rebuild ends where it is
RebuildInterrupted ==
    /\ UNCHANGED <<pipeline_vars, stub_vars, gateway_vars, task_vars>>
    /\ rebuild_pc \in {"adding", "write_index", "write_metadata"}
    /\ rebuild_pc' = "failed"
    /\ UNCHANGED <<store, vector_search_available, embedding_model, index,
                   metadata, index_file, metadata_file, cve_records, next_record,
                   before_rebuild>>
    /\ last_search' = <<>>

NextKB ==
    \/ SearchSimilar
    \/ add_cve_fix
    \/ RebuildStart
    \/ add_to_vector_index
    \/ WriteIndexFile
    \/ WriteMetadataFile
    \/ RebuildDone
    \/ RebuildInterrupted

SpecKB == InitKB /\ [][NextKB]_vars

\* -------------------------------------------------------------------- Init
CandidateLists ==
    {[n \in 1..m |-> FileAnalysisInput(n, ps[n])] :
        m \in 0..MaxFiles, ps \in [1..MaxFiles -> Paths]}

\* No stub gateway, one execution of Stage 1
StubStill ==
    /\ gateway = <<>>
    /\ run = 1
    /\ first_results = <<>>

Init ==
    /\ KnowledgeBaseStill
    /\ StubStill
    /\ GatewayStill
    /\ TasksStill
    /\ file_inputs \in CandidateLists
    /\ stage1_batch_size \in BatchSizes
    /\ risk_threshold \in Thresholds
    /\ pc = "idle"
    /\ i = 0
    /\ stage1_results = <<>>
    /\ high_risk_files = <<>>
    /\ high_risk_inputs = <<>>
    /\ j = 1
    /\ stage2_results = <<>>
    /\ k = 1
    /\ v = 1
    /\ enhanced_vulnerabilities = <<>>
    /\ cve_context = "unset"
    /\ stage3_results = <<>>
    /\ calls = <<>>
    /\ returned = <<>>
    /\ error = "none"

\* ----------------------------------------------------------------- actions
\* analyze_files_strict_three_stage is called and reaches range(0, n, batch_size)
StartRun ==
    /\ UNCHANGED <<kb_vars, stub_vars, gateway_vars, task_vars>>
    /\ pc = "idle"
    /\ stage1_batch_size # 0
    /\ pc' = "stage1"
    /\ UNCHANGED <<file_inputs, stage1_batch_size, risk_threshold, i,
                   stage1_results, high_risk_files, high_risk_inputs, j,
                   stage2_results, k, v, enhanced_vulnerabilities,
                   cve_context, stage3_results, calls, returned, error>>

\* range() arg 3 must not be zero: ValueError leaves the pipeline
StartRunZeroStep ==
    /\ UNCHANGED <<kb_vars, stub_vars, gateway_vars, task_vars>>
    /\ pc = "idle"
    /\ stage1_batch_size = 0
    /\ pc' = "raised"
    /\ error' = "ValueError"
    /\ UNCHANGED <<file_inputs, stage1_batch_size, risk_threshold, i,
                   stage1_results, high_risk_files, high_risk_inputs, j,
                   stage2_results, k, v, enhanced_vulnerabilities,
                   cve_context, stage3_results, calls, returned>>

\* Mutant of Stage1HasBatch: the range ends one past the list
Stage1HasBatch_Inclusive == stage1_batch_size > 0 /\ i <= Len(file_inputs)

\* range(0, len(file_inputs), batch_size) has a next value
Stage1HasBatch == stage1_batch_size > 0 /\ i < Len(file_inputs)

\* The body of the loop of _stage1_batch_risk_scoring, for the response the
\* gateway gives to the prompt of the batch
Stage1Iteration(response) ==
    LET batch == Slice(file_inputs, i, i + stage1_batch_size)
        pause == IF ~Raises(response) /\ i + stage1_batch_size < Len(file_inputs)
                 THEN <<Sleep(1)>> ELSE <<>>
    IN  /\ stage1_results' = stage1_results \o BatchResults(response, batch)
        /\ calls' = calls \o <<InferBatch(i, batch, Stage1Outcome(response))>>
                        \o pause
        /\ i' = i + stage1_batch_size

\* One iteration of the loop of _stage1_batch_risk_scoring
Stage1Batch ==
    /\ UNCHANGED <<kb_vars, stub_vars, gateway_vars, task_vars>>
    /\ pc = "stage1"
    /\ Stage1HasBatch
    /\ \E response \in Stage1Responses : Stage1Iteration(response)
    /\ UNCHANGED <<file_inputs, stage1_batch_size, risk_threshold, pc,
                   high_risk_files, high_risk_inputs, j, stage2_results, k, v,
                   enhanced_vulnerabilities, cve_context, stage3_results, returned, error>>

\* Mutant of SelectHighRisk: Stage 2 is entered while batches are pending
SelectHighRisk_Early ==
    /\ UNCHANGED <<kb_vars, stub_vars, gateway_vars, task_vars>>
    /\ pc = "stage1"
    /\ HighRiskFiles(stage1_results, risk_threshold) # <<>>
    /\ high_risk_files' = HighRiskFiles(stage1_results, risk_threshold)
    /\ high_risk_inputs' = HighRiskInputs(file_inputs, high_risk_files')
    /\ pc' = "stage2"
    /\ UNCHANGED <<file_inputs, stage1_batch_size, risk_threshold, i,
                   stage1_results, j, stage2_results, k, v,
                   enhanced_vulnerabilities, cve_context, stage3_results,
                   calls, returned, error>>

\* Stage 1 returns, the orchestrator filters and sorts, and Stage 2 is entered
SelectHighRisk ==
    /\ UNCHANGED <<kb_vars, stub_vars, gateway_vars, task_vars>>
    /\ pc = "stage1"
    /\ ~Stage1HasBatch
    /\ HighRiskFiles(stage1_results, risk_threshold) # <<>>
    /\ high_risk_files' = HighRiskFiles(stage1_results, risk_threshold)
    /\ high_risk_inputs' = HighRiskInputs(file_inputs, high_risk_files')
    /\ pc' = "stage2"
    /\ UNCHANGED <<file_inputs, stage1_batch_size, risk_threshold, i,
                   stage1_results, j, stage2_results, k, v,
                   enhanced_vulnerabilities, cve_context, stage3_results, calls, returned,
                   error>>

\* Stage 1 returns and no file is high-risk: Stage 2 and Stage 3 have nothing
\* to do and the result is returned
NoHighRisk ==
    /\ UNCHANGED <<kb_vars, stub_vars, gateway_vars, task_vars>>
    /\ pc = "stage1"
    /\ ~Stage1HasBatch
    /\ HighRiskFiles(stage1_results, risk_threshold) = <<>>
    /\ pc' = "done"
    /\ returned' = <<ReturnValue(file_inputs, <<>>, risk_threshold, <<>>, <<>>,
                                 calls)>>
    /\ UNCHANGED <<file_inputs, stage1_batch_size, risk_threshold, i,
                   stage1_results, high_risk_files, high_risk_inputs, j,
                   stage2_results, k, v, enhanced_vulnerabilities,
                   cve_context, stage3_results, calls, error>>

\* Mutant of Stage2File: an exception of the gateway call is not caught and
\* leaves Stage 2 and the orchestrator
Stage2File_Uncaught ==
    /\ UNCHANGED <<kb_vars, stub_vars, gateway_vars, task_vars>>
    /\ pc = "stage2"
    /\ j <= Len(high_risk_inputs)
    /\ \E response \in Stage2Responses :
          LET result == _analyze_single_file_detailed(response, high_risk_inputs[j])
          IN  /\ stage2_results' = stage2_results \o result
              /\ calls' = calls
                    \o <<Infer(2, high_risk_inputs[j].id, Stage2Outcome(response))>>
                    \o <<Sleep(2)>>
              /\ pc' = IF Raises(response) THEN "raised" ELSE pc
              /\ error' = IF Raises(response) THEN response.kind ELSE error
    /\ j' = j + 1
    /\ UNCHANGED <<file_inputs, stage1_batch_size, risk_threshold, i,
                   stage1_results, high_risk_files, high_risk_inputs, k, v,
                   enhanced_vulnerabilities, cve_context, stage3_results,
                   returned>>

\* One iteration of the loop of _stage2_detailed_vulnerability_analysis
Stage2File ==
    /\ UNCHANGED <<kb_vars, stub_vars, gateway_vars, task_vars>>
    /\ pc = "stage2"
    /\ j <= Len(high_risk_inputs)
    /\ \E response \in Stage2Responses :
          LET result == _analyze_single_file_detailed(response, high_risk_inputs[j])
          IN  /\ stage2_results' = stage2_results \o result
              /\ calls' = calls
                    \o <<Infer(2, high_risk_inputs[j].id, Stage2Outcome(response))>>
                    \o <<Sleep(2)>>
    /\ j' = j + 1
    /\ UNCHANGED <<file_inputs, stage1_batch_size, risk_threshold, pc, i,
                   stage1_results, high_risk_files, high_risk_inputs, k, v,
                   enhanced_vulnerabilities, cve_context, stage3_results, returned, error>>

\* Stage 2 returns some results and Stage 3 is entered
EnterStage3 ==
    /\ UNCHANGED <<kb_vars, stub_vars, gateway_vars, task_vars>>
    /\ pc = "stage2"
    /\ j > Len(high_risk_inputs)
    /\ stage2_results # <<>>
    /\ pc' = "stage3"
    /\ UNCHANGED <<file_inputs, stage1_batch_size, risk_threshold, i,
                   stage1_results, high_risk_files, high_risk_inputs, j,
                   stage2_results, k, v, enhanced_vulnerabilities,
                   cve_context, stage3_results, calls, returned, error>>

\* Stage 2 returns no result: Stage 3 has nothing to do, the result is returned
NoStage2Results ==
    /\ UNCHANGED <<kb_vars, stub_vars, gateway_vars, task_vars>>
    /\ pc = "stage2"
    /\ j > Len(high_risk_inputs)
    /\ stage2_results = <<>>
    /\ pc' = "done"
    /\ returned' = <<ReturnValue(file_inputs, high_risk_files, risk_threshold,
                                 <<>>, <<>>, calls)>>
    /\ UNCHANGED <<file_inputs, stage1_batch_size, risk_threshold, i,
                   stage1_results, high_risk_files, high_risk_inputs, j,
                   stage2_results, k, v, enhanced_vulnerabilities,
                   cve_context, stage3_results, calls, error>>

\* Mutant of Stage3PassThrough: a result without vulnerabilities is handed to
\* _enhance_with_cve_and_generate_diff like the others
Stage3PassThrough_Enhanced ==
    /\ UNCHANGED <<kb_vars, stub_vars, gateway_vars, task_vars>>
    /\ pc = "stage3"
    /\ k <= Len(stage2_results)
    /\ stage2_results[k].vulnerabilities = <<>>
    /\ stage3_results' = Append(stage3_results, EnhancedResult(stage2_results[k], <<>>))
    /\ k' = k + 1
    /\ UNCHANGED <<file_inputs, stage1_batch_size, risk_threshold, pc, i,
                   stage1_results, high_risk_files, high_risk_inputs, j,
                   stage2_results, v, enhanced_vulnerabilities, cve_context,
                   calls, returned, error>>

\* Stage 3, a result without vulnerabilities: appended as it is
Stage3PassThrough ==
    /\ UNCHANGED <<kb_vars, stub_vars, gateway_vars, task_vars>>
    /\ pc = "stage3"
    /\ k <= Len(stage2_results)
    /\ stage2_results[k].vulnerabilities = <<>>
    /\ stage3_results' = Append(stage3_results, stage2_results[k])
    /\ k' = k + 1
    /\ UNCHANGED <<file_inputs, stage1_batch_size, risk_threshold, pc, i,
                   stage1_results, high_risk_files, high_risk_inputs, j,
                   stage2_results, v, enhanced_vulnerabilities, cve_context,
                   calls,
                   returned, error>>

\* Stage 3, one iteration of the loop of _enhance_with_cve_and_generate_diff
Stage3Finding ==
    /\ UNCHANGED <<kb_vars, stub_vars, gateway_vars, task_vars>>
    /\ pc = "stage3"
    /\ k <= Len(stage2_results)
    /\ v <= Len(stage2_results[k].vulnerabilities)
    /\ \E retrieval \in RetrievalOutcomes, reasoning \in ReasoningOutcomes :
          LET vuln == stage2_results[k].vulnerabilities[v]
          IN  /\ enhanced_vulnerabilities' =
                    Append(enhanced_vulnerabilities,
                           EnhancedVulnerability(vuln, reasoning))
              /\ cve_context' = generate_diff_context_for_ai(retrieval)
              /\ calls' = calls
                    \o <<Search(k, generate_diff_context_for_ai(retrieval)),
                         Infer(3, k, Stage3Outcome(reasoning))>>
    /\ v' = v + 1
    /\ UNCHANGED <<file_inputs, stage1_batch_size, risk_threshold, pc, i,
                   stage1_results, high_risk_files, high_risk_inputs, j,
                   stage2_results, k, stage3_results, returned, error>>

\* Stage 3, _enhance_with_cve_and_generate_diff returns or raises for file k
Stage3FileDone ==
    /\ UNCHANGED <<kb_vars, stub_vars, gateway_vars, task_vars>>
    /\ pc = "stage3"
    /\ k <= Len(stage2_results)
    /\ stage2_results[k].vulnerabilities # <<>>
    /\ v > Len(stage2_results[k].vulnerabilities)
    /\ stage3_results' =
          Append(stage3_results,
                 EnhancedResult(stage2_results[k], enhanced_vulnerabilities))
    /\ k' = k + 1
    /\ v' = 1
    /\ enhanced_vulnerabilities' = <<>>
    /\ cve_context' = "unset"
    /\ UNCHANGED <<file_inputs, stage1_batch_size, risk_threshold, pc, i,
                   stage1_results, high_risk_files, high_risk_inputs, j,
                   stage2_results, calls, returned, error>>

\* Stage 3 returns and the result is aggregated and returned
Finish ==
    /\ UNCHANGED <<kb_vars, stub_vars, gateway_vars, task_vars>>
    /\ pc = "stage3"
    /\ k > Len(stage2_results)
    /\ pc' = "done"
    /\ returned' = <<ReturnValue(file_inputs, high_risk_files, risk_threshold,
                                 stage2_results, stage3_results, calls)>>
    /\ UNCHANGED <<file_inputs, stage1_batch_size, risk_threshold, i,
                   stage1_results, high_risk_files, high_risk_inputs, j,
                   stage2_results, k, v, enhanced_vulnerabilities,
                   cve_context, stage3_results, calls, error>>

Next ==
    \/ StartRun
    \/ StartRunZeroStep
    \/ Stage1Batch
    \/ SelectHighRisk
    \/ NoHighRisk
    \/ Stage2File
    \/ EnterStage3
    \/ NoStage2Results
    \/ Stage3PassThrough
    \/ Stage3Finding
    \/ Stage3FileDone
    \/ Finish

Spec == Init /\ [][Next]_vars

\* ------------------------------------- Stage 1 twice against a stub gateway
\* The responses the stub can be set up with
StubResponses ==
    {r \in Stage1Responses :
        \/ r.kind \in {"Timeout", "no_json"}
        \/ r.kind = "scores" /\ Len(r.scores) <= 1}

\* The prompts Stage 1 builds for a candidate list and a batch size
Prompts(inputs, batch_size) ==
    {_build_stage1_batch_scoring_prompt(Slice(inputs, offset, offset + batch_size)) :
        offset \in {o \in 0..(Len(inputs) - 1) : o % batch_size = 0}}

\* Mutant of all_results: the list of an earlier call is kept
all_results_Kept(earlier) == earlier

\* all_results = []: the list a call of _stage1_batch_risk_scoring starts
\* with, whatever an earlier call has left
all_results(earlier) == <<>>

InitTwice ==
    /\ KnowledgeBaseStill
    /\ GatewayStill
    /\ TasksStill
    /\ file_inputs \in CandidateLists
    /\ stage1_batch_size \in {b \in BatchSizes : b >= 1}
    /\ risk_threshold = 70
    /\ pc = "stage1"
    /\ i = 0
    /\ stage1_results = all_results(<<>>)
    /\ high_risk_files = <<>>
    /\ high_risk_inputs = <<>>
    /\ j = 1
    /\ stage2_results = <<>>
    /\ k = 1
    /\ v = 1
    /\ enhanced_vulnerabilities = <<>>
    /\ cve_context = "unset"
    /\ stage3_results = <<>>
    /\ calls = <<>>
    /\ returned = <<>>
    /\ error = "none"
    /\ gateway \in [Prompts(file_inputs, stage1_batch_size) -> StubResponses]
    /\ run = 1
    /\ first_results = <<>>

\* One iteration of the loop of _stage1_batch_risk_scoring, the gateway being
\* the stub
StubbedBatch ==
    /\ UNCHANGED <<kb_vars, stub_vars, gateway_vars, task_vars>>
    /\ pc = "stage1"
    /\ Stage1HasBatch
    /\ Stage1Iteration(gateway[_build_stage1_batch_scoring_prompt(
                                   Slice(file_inputs, i, i + stage1_batch_size))])
    /\ UNCHANGED <<file_inputs, stage1_batch_size, risk_threshold, pc,
                   high_risk_files, high_risk_inputs, j, stage2_results, k, v,
                   enhanced_vulnerabilities, cve_context, stage3_results, returned, error>>

\* _stage1_batch_risk_scoring has returned and is called again with the same
\* arguments
SecondExecution ==
    /\ UNCHANGED <<kb_vars, gateway_vars, task_vars>>
    /\ pc = "stage1"
    /\ ~Stage1HasBatch
    /\ run = 1
    /\ first_results' = stage1_results
    /\ stage1_results' = all_results(stage1_results)
    /\ i' = 0
    /\ run' = 2
    /\ UNCHANGED <<file_inputs, stage1_batch_size, risk_threshold, pc,
                   high_risk_files, high_risk_inputs, j, stage2_results, k, v,
                   enhanced_vulnerabilities, cve_context, stage3_results, calls,
                   returned, error, gateway>>

NextTwice ==
    \/ StubbedBatch
    \/ SecondExecution

SpecTwice == InitTwice /\ [][NextTwice]_vars

\* ---------------------------------- Stage 3 on a list of Stage 2 results
\* The analyses Stage 2 can have decoded, with up to MaxFindings findings
DetailedAnalyses ==
    {[kind |-> "analysis",
      vulnerabilities |-> [n \in 1..m |-> VulnerabilityInfo(n)],
      summary |-> sm] :
        m \in 0..MaxFindings, sm \in {Str("summary"), NonStr}}

\* The lists _stage2_detailed_vulnerability_analysis can return for some
\* high-risk inputs: one decoded analysis per file, not empty
DetailedResults ==
    {[n \in 1..Len(inputs) |->
         _parse_detailed_analysis_response(analyses[n], inputs[n])[1]] :
        inputs \in CandidateLists \ {<<>>},
        analyses \in [1..MaxFiles -> DetailedAnalyses]}

\* _stage3_cve_enhanced_diff_generation is called with detailed_results
InitStage3 ==
    /\ KnowledgeBaseStill
    /\ StubStill
    /\ GatewayStill
    /\ TasksStill
    /\ file_inputs = <<>>
    /\ stage1_batch_size = 1
    /\ risk_threshold = 70
    /\ pc = "stage3"
    /\ i = 0
    /\ stage1_results = <<>>
    /\ high_risk_files = <<>>
    /\ high_risk_inputs = <<>>
    /\ j = 1
    /\ stage2_results \in DetailedResults
    /\ k = 1
    /\ v = 1
    /\ enhanced_vulnerabilities = <<>>
    /\ cve_context = "unset"
    /\ stage3_results = <<>>
    /\ calls = <<>>
    /\ returned = <<>>
    /\ error = "none"

NextStage3 ==
    \/ Stage3PassThrough
    \/ Stage3Finding
    \/ Stage3FileDone

SpecStage3 == InitStage3 /\ [][NextStage3]_vars

\* ------------------------------------------------------- the gateway alone
\* What the external service does with a request: it answers with a message
\* that has content or has none, or the request fails
ServiceOutcomes == {"content", "no_content", "Timeout", "TransportError"}

\* Mutant of _call_ai_api: a failed request is sent once more
_call_ai_api_Retry(answers, sent) ==
    IF answers[sent + 1] \in {"Timeout", "TransportError"} /\ sent + 2 <= Len(answers)
    THEN [requests |-> 2,
          raised |-> answers[sent + 2] \in {"Timeout", "TransportError"},
          value |-> CASE answers[sent + 2] = "content" -> "text"
                      [] answers[sent + 2] = "no_content" -> ""
                      [] OTHER -> answers[sent + 2]]
    ELSE [requests |-> 1,
          raised |-> answers[sent + 1] \in {"Timeout", "TransportError"},
          value |-> CASE answers[sent + 1] = "content" -> "text"
                      [] answers[sent + 1] = "no_content" -> ""
                      [] OTHER -> answers[sent + 1]]

\* _call_ai_api: one chat.completions.create; its content (or "") is
\* returned, its exception is logged and raised again
_call_ai_api(answers, sent) ==
    LET answer == answers[sent + 1]
    IN  [requests |-> 1,
         raised |-> answer \in {"Timeout", "TransportError"},
         value |-> CASE answer = "content" -> "text"
                     [] answer = "no_content" -> ""
                     [] OTHER -> answer]

InitGateway ==
    /\ PipelineStill
    /\ KnowledgeBaseStill
    /\ StubStill
    /\ TasksStill
    /\ service \in [1..MaxRequests -> ServiceOutcomes]
    /\ requests = 0
    /\ gateway_calls = <<>>

\* A stage awaits _call_ai_api
CallAIApi ==
    /\ UNCHANGED <<pipeline_vars, kb_vars, stub_vars, task_vars>>
    /\ requests < Len(service)
    /\ LET out == _call_ai_api(service, requests)
       IN  /\ requests' = requests + out.requests
           /\ gateway_calls' = Append(gateway_calls,
                                      [first |-> requests + 1,
                                       requests |-> out.requests,
                                       raised |-> out.raised,
                                       value |-> out.value])
    /\ UNCHANGED service

NextGateway == CallAIApi

SpecGateway == InitGateway /\ [][NextGateway]_vars

\* --------------------------------------------------------- the TaskManager
TaskIds == {"t1", "t2"}
\* progress values the callers report, results and error texts
Progresses == {10, 95}
TaskResults == {"final_results"}
TaskErrors == {"error"}

\* TaskInfo as create_task builds it (result and error: <<>> for None)
TaskInfo(task_id) ==
    [task_id |-> task_id, status |-> "pending", progress |-> 0,
     current_step |-> "init", result |-> <<>>, error |-> <<>>]

\* The operation that has just returned
TaskOp(op, task_id) == <<[op |-> op, task_id |-> task_id]>>

InitTasks ==
    /\ PipelineStill
    /\ KnowledgeBaseStill
    /\ StubStill
    /\ GatewayStill
    /\ tasks = <<>>
    /\ last_op = <<>>

\* create_task: self.tasks[task_id] = TaskInfo(...)
create_task ==
    /\ UNCHANGED <<pipeline_vars, kb_vars, stub_vars, gateway_vars>>
    /\ \E task_id \in TaskIds :
          /\ tasks' = [t \in DOMAIN tasks \cup {task_id} |->
                          IF t = task_id THEN TaskInfo(task_id) ELSE tasks[t]]
          /\ last_op' = TaskOp("create_task", task_id)

\* update_task_progress, awaited
update_task_progress ==
    /\ UNCHANGED <<pipeline_vars, kb_vars, stub_vars, gateway_vars>>
    /\ \E task_id \in TaskIds, progress \in Progresses :
          /\ tasks' = IF task_id \in DOMAIN tasks
                       THEN [tasks EXCEPT ![task_id].progress = progress,
                                          ![task_id].current_step = "step"]
                       ELSE tasks
          /\ last_op' = TaskOp("update_task_progress", task_id)

complete_task ==
    /\ UNCHANGED <<pipeline_vars, kb_vars, stub_vars, gateway_vars>>
    /\ \E task_id \in TaskIds, result \in TaskResults :
          /\ tasks' = IF task_id \in DOMAIN tasks
                       THEN [tasks EXCEPT ![task_id].status = "completed",
                                          ![task_id].progress = 100,
                                          ![task_id].current_step = "completed",
                                          ![task_id].result = <<result>>]
                       ELSE tasks
          /\ last_op' = TaskOp("complete_task", task_id)

fail_task ==
    /\ UNCHANGED <<pipeline_vars, kb_vars, stub_vars, gateway_vars>>
    /\ \E task_id \in TaskIds, err \in TaskErrors :
          /\ tasks' = IF task_id \in DOMAIN tasks
                       THEN [tasks EXCEPT ![task_id].status = "failed",
                                          ![task_id].current_step = "failed",
                                          ![task_id].error = <<err>>]
                       ELSE tasks
          /\ last_op' = TaskOp("fail_task", task_id)

delete_task ==
    /\ UNCHANGED <<pipeline_vars, kb_vars, stub_vars, gateway_vars>>
    /\ \E task_id \in TaskIds :
          /\ tasks' = [t \in DOMAIN tasks \ {task_id} |-> tasks[t]]
          /\ last_op' = TaskOp("delete_task", task_id)

NextTasks ==
    \/ create_task
    \/ update_task_progress
    \/ complete_task
    \/ fail_task
    \/ delete_task

SpecTasks == InitTasks /\ [][NextTasks]_vars

\* =================================================================== claims
\* Stage 1 has returned to the orchestrator
Stage1Returned == pc \in {"stage2", "stage3", "done"}

\* Stage 2 has returned to the orchestrator
Stage2Returned == pc \in {"stage3", "done"} /\ high_risk_inputs # <<>>

ValidParameters == stage1_batch_size >= 1 /\ risk_threshold \in 0..100

\* The Stage 1 results for the path of a candidate
ScoresOf(fi) ==
    {n \in 1..Len(stage1_results) : stage1_results[n].file_path = fi.file_path}

\* C1: for a non-empty candidate list and a batch size >= 1, Stage 1 returns
\* exactly one result per input file: output length = input length.
\* (Shown on runs whose scores are all in range.)
C1_OutputLengthEqualsInputLength ==
    (/\ Stage1Returned /\ stage1_batch_size >= 1 /\ file_inputs # <<>>
     /\ \A n \in 1..Len(stage1_results) :
            stage1_results[n].ai_risk_score \in 0..100)
        => Len(stage1_results) = Len(file_inputs)

\* C2: every result Stage 1 produces has a score in [0,100].
C2_ScoreInRange ==
    \A n \in 1..Len(stage1_results) :
        stage1_results[n].ai_risk_score \in 0..100

\* C3: a candidate is passed to Stage 2 iff its Stage 1 score is >= the
\* threshold: no candidate with a score below the threshold is in the Stage 2
\* input, and every candidate with a score at or above it is.
\* (Shown on runs whose scores are all in range.)
C3_Stage2InputIffHighRisk ==
    (Stage1Returned /\ C2_ScoreInRange) =>
        /\ \A n \in 1..Len(high_risk_inputs) :
              \A m \in ScoresOf(high_risk_inputs[n]) :
                  stage1_results[m].ai_risk_score >= risk_threshold
        /\ \A n \in 1..Len(file_inputs) :
              (\E m \in ScoresOf(file_inputs[n]) :
                   stage1_results[m].ai_risk_score >= risk_threshold)
                  => file_inputs[n] \in Range(high_risk_inputs)

\* Every candidate has its own path and exactly one Stage 1 result, in [0,100]
CleanlyScored ==
    /\ \A n, m \in 1..Len(file_inputs) :
          file_inputs[n].file_path = file_inputs[m].file_path => n = m
    /\ \A n \in 1..Len(file_inputs) : Cardinality(ScoresOf(file_inputs[n])) = 1
    /\ C2_ScoreInRange

ScoreOfId(id) ==
    stage1_results[CHOOSE m \in ScoresOf(file_inputs[id]) : TRUE].ai_risk_score

IsStage2Call(c) == c.op = "infer" /\ c.stage = 2

\* C4: the Stage 2 gateway calls are issued in descending order of Stage 1
\* score: no call for a file precedes the call for a file with a strictly
\* higher score.
C4_Stage2CallsByScoreDescending ==
    CleanlyScored =>
        \A p, q \in 1..Len(calls) :
            (p < q /\ IsStage2Call(calls[p]) /\ IsStage2Call(calls[q]))
                => ScoreOfId(calls[p].target) >= ScoreOfId(calls[q].target)

Stage1Calls == SelectSeq(calls, LAMBDA c : c.op = "infer" /\ c.stage = 1)
Stage2Calls == SelectSeq(calls, IsStage2Call)

\* C5: with a batch size >= 1 the pipeline never raises, whatever the gateway
\* and the retrieval do, and it does not stop before it has returned a result.
C5_NeverRaisesAlwaysReturns ==
    stage1_batch_size >= 1 =>
        /\ pc # "raised"
        /\ error = "none"
        /\ (pc = "done") = (returned # <<>>)
        /\ (~ENABLED Next) => pc = "done"

C5_Witness ==
    /\ pc = "done"
    /\ returned # <<>>
    /\ \E n \in 1..Len(calls) :
          calls[n].op = "infer" /\ calls[n].stage = 1 /\ calls[n].outcome = "raised"
    /\ \E n \in 1..Len(calls) :
          calls[n].op = "infer" /\ calls[n].stage = 2 /\ calls[n].outcome = "failed"

\* C6: if every Stage 1 gateway call raises, Stage 1 returns one result per
\* input file, for that file, with score 50, confidence 0.3 and the rationale
\* that states the degradation.
C6_AllRaiseGivesDefault ==
    (/\ Stage1Returned
     /\ stage1_batch_size >= 1
     /\ \A n \in 1..Len(Stage1Calls) : Stage1Calls[n].outcome = "raised")
        => /\ Len(stage1_results) = Len(file_inputs)
           /\ \A n \in 1..Len(stage1_results) :
                 /\ stage1_results[n].file_path = file_inputs[n].file_path
                 /\ stage1_results[n].ai_risk_score = 50
                 /\ stage1_results[n].confidence = 30
                 /\ stage1_results[n].analysis_reasoning
                        = Str("stage1_batch_failed_default")

C6_Witness ==
    /\ pc = "done"
    /\ stage1_batch_size = 1
    /\ Len(file_inputs) = 2
    /\ Len(Stage1Calls) = 2
    /\ \A n \in 1..Len(Stage1Calls) : Stage1Calls[n].outcome = "raised"
    /\ Len(stage1_results) = 2

\* The paths of the candidates whose Stage 2 call returned a decodable analysis
DecodedPaths ==
    LET decoded == SelectSeq(Stage2Calls, LAMBDA c : c.outcome = "decoded")
    IN  [n \in 1..Len(decoded) |-> file_inputs[decoded[n].target].file_path]

\* C7: Stage 2 handles every high-risk file once, in the order of its input,
\* whether earlier files failed or not; a file whose call or parse failed is
\* missing from the output and every file whose call and parse succeeded is in
\* the output once, in that order.
C7_Stage2FailureDropsOnlyThatFile ==
    pc \in {"stage2", "stage3", "done"} =>
        /\ Len(Stage2Calls) = (IF pc = "stage2" THEN j - 1 ELSE Len(high_risk_inputs))
        /\ \A n \in 1..Len(Stage2Calls) :
              Stage2Calls[n].target = high_risk_inputs[n].id
        /\ [n \in 1..Len(stage2_results) |-> stage2_results[n].file_path]
              = DecodedPaths

C7_Witness ==
    /\ Stage2Returned
    /\ Len(Stage2Calls) = 2
    /\ Stage2Calls[1].outcome = "failed"
    /\ Stage2Calls[2].outcome = "decoded"
    /\ Len(stage2_results) = 1

\* C8: a finding whose retrieval step failed keeps its remediation in the
\* Stage 3 output. (Shown on findings whose output remediation is not empty.)
C8_RetrievalFailureKeepsRemediation ==
    [][(/\ pc = "stage3"
        /\ k <= Len(stage2_results)
        /\ cve_context = "context_generation_failed"
        /\ k' = k + 1)
          => LET out == stage3_results'[k].vulnerabilities
                 old == stage2_results[k].vulnerabilities
             IN  \/ out[Len(out)].remediation = ""
                 \/ out[Len(out)].remediation = old[Len(old)].remediation]_vars

\* C9: the calls of the three stages are issued in the order Stage 1, Stage 2,
\* Stage 3: a Stage 2 call only after the last Stage 1 batch, a Stage 3 call
\* only after the last Stage 2 file; a run without high-risk file ends with
\* empty Stage 2 and Stage 3 lists.
C9_StagesInOrder ==
    /\ \A p, q \in 1..Len(calls) : p < q => calls[p].stage <= calls[q].stage
    /\ (\E n \in 1..Len(calls) : calls[n].stage >= 2)
          => (~Stage1HasBatch /\ pc \in {"stage2", "stage3", "done"})
    /\ (\E n \in 1..Len(calls) : calls[n].stage = 3)
          => (j > Len(high_risk_inputs) /\ pc \in {"stage3", "done"})
    /\ pc = "stage1" => (stage2_results = <<>> /\ stage3_results = <<>>)
    /\ pc = "stage2" => stage3_results = <<>>
    /\ (pc = "stage1" /\ ~Stage1HasBatch) => (ENABLED SelectHighRisk \/ ENABLED NoHighRisk)
    /\ (pc = "done" /\ high_risk_files = <<>>)
          => /\ stage2_results = <<>>
             /\ stage3_results = <<>>
             /\ returned # <<>>
             /\ \A n \in 1..Len(calls) : calls[n].stage = 1

C9_Witness ==
    /\ pc = "done"
    /\ \E n \in 1..Len(calls) : calls[n].stage = 1
    /\ \E n \in 1..Len(calls) : calls[n].stage = 2
    /\ \E n \in 1..Len(calls) : calls[n].stage = 3

\* C10: with a batch size <= 0 or a threshold outside [0,100] the pipeline
\* aborts before any stage runs: no gateway call is made and no result is
\* returned. (Shown on non-empty candidate lists.)
C10_InvalidParametersAbort ==
    (~ValidParameters /\ file_inputs # <<>>) =>
        /\ calls = <<>>
        /\ returned = <<>>
        /\ pc # "done"

\* C11: a run on an empty candidate list (with a batch size the range accepts)
\* raises nothing, makes no gateway and no retrieval call, and returns a
\* result whose three stage lists are empty and whose counters (files,
\* high-risk files, findings, references, average time per file) are zero.
C11_EmptyListGivesEmptyResult ==
    (file_inputs = <<>> /\ stage1_batch_size # 0) =>
        /\ pc \in {"idle", "stage1", "done"}
        /\ error = "none"
        /\ calls = <<>>
        /\ stage1_results = <<>> /\ stage2_results = <<>> /\ stage3_results = <<>>
        /\ pc = "stage1" => ENABLED NoHighRisk
        /\ pc = "done" =>
              /\ Len(returned) = 1
              /\ returned[1].total_files = 0
              /\ returned[1].total_files_analyzed = 0
              /\ returned[1].high_risk_files = 0
              /\ returned[1].high_risk_files_found = 0
              /\ returned[1].analyzed_files = 0
              /\ returned[1].enhanced_files = 0
              /\ returned[1].vulnerabilities_discovered = 0
              /\ returned[1].cve_references_generated = 0
              /\ returned[1].average_time_per_file = 0

C11_Witness ==
    /\ file_inputs = <<>>
    /\ stage1_batch_size = 2
    /\ pc = "done"
    /\ returned # <<>>

\* C12: with a batch size b >= 1 Stage 1 makes one gateway call per batch and
\* sends no batch twice: the n-th call sends the files (n-1)*b+1 .. n*b of the
\* input (clipped at its end), in input order, whether earlier calls raised or
\* not, and when Stage 1 has finished it has made ceil(N / b) calls.
C12_OneCallPerContiguousBatch ==
    (stage1_batch_size >= 1 /\ pc # "idle") =>
        LET b == stage1_batch_size
            N == Len(file_inputs)
        IN  /\ \A n \in 1..Len(Stage1Calls) :
                  /\ Stage1Calls[n].target = (n - 1) * b
                  /\ Stage1Calls[n].prompt.sections
                        = SubSeq(file_inputs, (n - 1) * b + 1,
                                 IF n * b < N THEN n * b ELSE N)
                  /\ Stage1Calls[n].prompt.sections # <<>>
            /\ pc = "stage1" => Len(Stage1Calls) * b = i
            /\ ~(pc = "stage1" /\ Stage1HasBatch)
                  => Len(Stage1Calls) = (N + b - 1) \div b

C12_Witness ==
    /\ pc = "done"
    /\ stage1_batch_size = 1
    /\ Len(file_inputs) = 2
    /\ Len(Stage1Calls) = 2
    /\ Stage1Calls[1].outcome = "raised"
    /\ Stage1Calls[2].outcome = "scored"

\* The failures of a run, counted from its history and its results
DegradedBatches ==
    Len(SelectSeq(Stage1Calls, LAMBDA c : c.outcome # "scored"))
DroppedFiles ==
    Len(SelectSeq(Stage2Calls, LAMBDA c : c.outcome = "failed"))
UnenhancedFindings ==
    Cardinality({<<a, b>> \in (1..Len(stage3_results)) \X (1..MaxVulns) :
                    /\ b <= Len(stage3_results[a].vulnerabilities)
                    /\ stage3_results[a].vulnerabilities[b].remediation = "original"})

\* C17: the returned result carries, in three fields of its own, the number of
\* degraded Stage 1 batches, of dropped Stage 2 files and of Stage 3 findings
\* left un-enhanced of the run.
C17_ResultCarriesDegradationCounts ==
    pc = "done" =>
        \E f, g, h \in DOMAIN returned[1] :
            /\ f # g /\ g # h /\ f # h
            /\ returned[1][f] = DegradedBatches
            /\ returned[1][g] = DroppedFiles
            /\ returned[1][h] = UnenhancedFindings

BatchFailed(result) ==
    result.analysis_reasoning \in {Str("stage1_batch_failed_default"),
                                   Str("stage1_parse_failed")}

\* C19: the files of failed Stage 1 batches get one and the same default score
\* and one and the same confidence, whether the call raised or the response
\* could not be decoded.
C19_OneDefaultForFailedBatches ==
    \A a, b \in 1..Len(stage1_results) :
        (BatchFailed(stage1_results[a]) /\ BatchFailed(stage1_results[b]))
            => /\ stage1_results[a].ai_risk_score = stage1_results[b].ai_risk_score
               /\ stage1_results[a].confidence = stage1_results[b].confidence

\* The paths of a batch, and the entries of a response that name one of them
BatchPaths(batch) == {batch[a].file_path : a \in 1..Len(batch)}
NamedEntries(response, batch) ==
    SelectSeq(response.scores, LAMBDA e : e.file_path \in BatchPaths(batch))

\* C20: for the batch Stage 1 is about to send and every response that decodes
\* to a list of entries: the results start with one result per entry that names
\* a file of the batch, in the order of the entries, with the entry's path,
\* score and confidence; they go on with one result per batch file that no
\* entry names, in batch order, with the default score 40 (not 0), the
\* confidence 0.3 and the rationale that the score was not found in the
\* response; an entry that names no file of the batch gives no result.
C20_PartialResponse ==
    (pc = "stage1" /\ Stage1HasBatch) =>
        \A response \in Stage1Responses :
            response.kind = "scores" =>
                LET batch == Slice(file_inputs, i, i + stage1_batch_size)
                    results == _parse_stage1_scoring_response(response, batch)
                    named == NamedEntries(response, batch)
                    missed == SelectSeq(batch, LAMBDA fi :
                                  \A a \in 1..Len(response.scores) :
                                      response.scores[a].file_path # fi.file_path)
                IN  /\ Len(results) = Len(named) + Len(missed)
                    /\ \A a \in 1..Len(named) :
                          /\ results[a].file_path = named[a].file_path
                          /\ results[a].ai_risk_score = named[a].risk_score
                          /\ results[a].confidence = named[a].confidence
                    /\ \A a \in 1..Len(missed) :
                          /\ results[Len(named) + a].file_path = missed[a].file_path
                          /\ results[Len(named) + a].ai_risk_score = 40
                          /\ results[Len(named) + a].ai_risk_score # 0
                          /\ results[Len(named) + a].confidence = 30
                          /\ results[Len(named) + a].analysis_reasoning
                                = Str("not_found_in_response")
                    /\ \A a \in 1..Len(results) :
                          results[a].file_path \in BatchPaths(batch)

\* The response to a batch of two files has named one of them
C20_Witness ==
    /\ stage1_batch_size = 2
    /\ Len(file_inputs) = 2
    /\ Len(Stage1Calls) = 1
    /\ Stage1Calls[1].outcome = "scored"
    /\ Len(stage1_results) = 2
    /\ stage1_results[1].file_path = "b.py"
    /\ stage1_results[1].ai_risk_score = 85
    /\ stage1_results[1].analysis_reasoning = Str("given")
    /\ stage1_results[2].file_path = "a.py"
    /\ stage1_results[2].ai_risk_score = 40
    /\ stage1_results[2].analysis_reasoning = Str("not_found_in_response")

\* C21: a Stage 2 result without vulnerabilities is in the Stage 3 list as it
\* is, every field equal, and no retrieval call and no gateway call of Stage 3
\* is made for it.
C21_NoFindingsPassThrough ==
    pc \in {"stage3", "done"} =>
        /\ \A n \in 1..Len(stage3_results) :
              stage2_results[n].vulnerabilities = <<>>
                  => stage3_results[n] = stage2_results[n]
        /\ \A n \in 1..Len(calls) :
              calls[n].stage = 3
                  => stage2_results[calls[n].target].vulnerabilities # <<>>

\* Stage 3 has passed one result through and enhanced another
C21_Witness ==
    /\ pc = "done"
    /\ Len(stage3_results) = 2
    /\ stage2_results[1].vulnerabilities = <<>>
    /\ stage2_results[1].summary.is_str
    /\ stage3_results[1] = stage2_results[1]
    /\ stage2_results[2].vulnerabilities # <<>>
    /\ \E n \in 1..Len(calls) : calls[n].stage = 3 /\ calls[n].target = 2

\* The fields of a finding other than its remediation
KeptFields ==
    {"title", "severity", "cwe_id", "description", "location", "code_snippet",
     "impact", "confidence"}

\* C22: Stage 3 returns one result per Stage 2 result, in the same order and
\* for the same file, with as many findings in the same order; every field of
\* a finding other than the remediation has its Stage 2 value, whether the
\* reasoning call of the finding succeeded or failed.
C22_Stage3KeepsAllButRemediation ==
    pc = "stage3" =>
        /\ Len(stage3_results) = k - 1
        /\ k <= Len(stage2_results) + 1
        /\ (k <= Len(stage2_results)) = ENABLED NextStage3
        /\ \A n \in 1..Len(stage3_results) :
              LET before == stage2_results[n].vulnerabilities
                  after == stage3_results[n].vulnerabilities
              IN  /\ stage3_results[n].file_path = stage2_results[n].file_path
                  /\ Len(after) = Len(before)
                  /\ \A m \in 1..Len(after) :
                        /\ DOMAIN after[m] = KeptFields \cup {"remediation"}
                        /\ \A f \in KeptFields : after[m][f] = before[m][f]

\* Stage 3 has returned two results; in the second the first finding is
\* enhanced and the reasoning call of the second finding failed
C22_Witness ==
    /\ pc = "stage3"
    /\ k > Len(stage2_results)
    /\ Len(stage3_results) = 2
    /\ Len(stage3_results[2].vulnerabilities) = 2
    /\ stage3_results[2].vulnerabilities[1].remediation = "enhanced"
    /\ stage3_results[2].vulnerabilities[1].title = 1
    /\ stage3_results[2].vulnerabilities[2].remediation = "original"
    /\ stage3_results[2].vulnerabilities[2].title = 2

\* C23: the gateway does not hand an empty text to its caller as a response
\* (it fails with EmptyResponse instead), so no finding leaves Stage 3 with an
\* empty remediation in place of the one it had.
C23_NoEmptyRemediation ==
    /\ \A n \in 1..Len(enhanced_vulnerabilities) :
          enhanced_vulnerabilities[n].remediation # ""
    /\ \A n \in 1..Len(stage3_results) :
          \A m \in 1..Len(stage3_results[n].vulnerabilities) :
              stage3_results[n].vulnerabilities[m].remediation # ""

\* Two Stage 1 calls are consecutive in the history: no Stage 1 call lies
\* between them
ConsecutiveStage1Calls(p, q) ==
    /\ p < q
    /\ calls[p].op = "infer" /\ calls[p].stage = 1
    /\ calls[q].op = "infer" /\ calls[q].stage = 1
    /\ \A r \in (p + 1)..(q - 1) : calls[r].op # "infer"

\* C24: between any two consecutive Stage 1 gateway calls there is a pacing
\* delay, also when the earlier call failed; after the last call there is none.
C24_PauseBetweenBatches ==
    /\ \A p, q \in 1..Len(calls) :
          ConsecutiveStage1Calls(p, q)
              => \E r \in (p + 1)..(q - 1) : calls[r].op = "sleep" /\ calls[r].stage = 1
    /\ Stage1Returned =>
          \A p \in 1..Len(calls) :
              (calls[p].op = "sleep" /\ calls[p].stage = 1)
                  => \E q \in (p + 1)..Len(calls) :
                         calls[q].op = "infer" /\ calls[q].stage = 1

C27_CountersAgreeWithLists ==
    pc = "done" =>
        LET high == {n \in 1..Len(stage1_results) :
                        stage1_results[n].ai_risk_score >= risk_threshold}
            findings == {<<n, m>> \in (1..Len(stage3_results)) \X (1..MaxVulns) :
                            m <= Len(stage3_results[n].vulnerabilities)}
        IN  /\ Len(returned) = 1
            /\ returned[1].total_files = Len(file_inputs)
            /\ returned[1].total_files_analyzed = Len(file_inputs)
            /\ returned[1].high_risk_files = Cardinality(high)
            /\ returned[1].high_risk_files_found = Cardinality(high)
            /\ returned[1].risk_threshold = risk_threshold
            /\ returned[1].analyzed_files = Len(stage2_results)
            /\ returned[1].enhanced_files = Len(stage3_results)
            /\ returned[1].vulnerabilities_discovered = Cardinality(findings)

\* A run of two high-risk files of which Stage 2 dropped one and found a
\* finding in the other
C27_Witness ==
    /\ pc = "done"
    /\ returned[1].total_files = 2
    /\ returned[1].high_risk_files = 2
    /\ returned[1].analyzed_files = 1
    /\ returned[1].enhanced_files = 1
    /\ returned[1].vulnerabilities_discovered = 1

\* Stage 3 has enhanced a finding of the returned list with a context built
\* from retrieved records
EnhancedFromRecords ==
    \E n \in 1..(Len(calls) - 1) :
        /\ calls[n].op = "search"
        /\ calls[n].outcome = "cve_cases"
        /\ calls[n + 1].op = "infer"
        /\ calls[n + 1].stage = 3
        /\ calls[n + 1].outcome = "returned"
        /\ calls[n + 1].target = calls[n].target
        /\ calls[n].target <= Len(stage3_results)
        /\ \E m \in 1..Len(stage3_results[calls[n].target].vulnerabilities) :
              stage3_results[calls[n].target].vulnerabilities[m].remediation
                  = "enhanced"

\* C28: when Stage 3 has enhanced at least one finding with a context built
\* from at least one retrieved record, the records-referenced counter of the
\* result (cve_references_generated) is greater than zero.
C28_ReferencesCounted ==
    (pc = "done" /\ EnhancedFromRecords)
        => returned[1].cve_references_generated > 0

\* A task is in a terminal status
Terminal(task) == task.status \in {"completed", "failed"}

\* C30: once a task is completed or failed, no later complete_task, fail_task
\* or update_task_progress changes its status, and a task never has a result
\* together with the status failed; an operation on a task id that does not
\* exist changes no task.
C30_TerminalStatusIsFinal ==
    [][(/\ last_op' # <<>>
        /\ last_op'[1].op \in {"complete_task", "fail_task", "update_task_progress"})
          => /\ \A t \in DOMAIN tasks :
                   Terminal(tasks[t])
                       => /\ t \in DOMAIN tasks'
                          /\ tasks'[t].status = tasks[t].status
                          /\ ~(tasks'[t].status = "failed" /\ tasks'[t].result # <<>>)
             /\ last_op'[1].task_id \notin DOMAIN tasks => tasks' = tasks]_vars

\* ------------------------------------------- claims on the knowledge base
\* C13: in every state of the knowledge base and for every query with a limit
\* k >= 1, a search does not raise and returns at most k results, whatever
\* raises inside it; when the index or the model is absent, the index is
\* empty, or the encoder or the nearest-neighbour search raises, the result
\* is the one _text_search returns for the same text and filters; over an
\* empty store the result is the empty list.
C13_SearchNeverRaisesFallsBack ==
    /\ \A query \in Queries, faults \in Faults :
          LET out == search_similar_vulnerabilities(store, vector_search_available,
                         embedding_model, index, metadata, query, faults)
              text == _text_search(store, query, faults)
          IN  /\ ~out.raised
              /\ Len(out.value) <= query.limit
              /\ (\/ ~VectorPath(vector_search_available, embedding_model, index)
                  \/ faults.encode
                  \/ faults.nn)
                    => (out.path = "lexical" /\ out.value = text.value)
              /\ store = {} => out.value = <<>>
    /\ last_search # <<>> =>
          /\ ~last_search[1].raised
          /\ Len(last_search[1].results) <= last_search[1].query.limit

\* A search over a usable index has fallen back and returned rows
C13_Witness ==
    /\ last_search # <<>>
    /\ VectorPath(vector_search_available, embedding_model, index)
    /\ last_search[1].path = "lexical"
    /\ Len(last_search[1].results) = last_search[1].query.limit

\* The index positions among the 3 * limit nearest to the query whose
\* metadata entry passes the filters of the query, nearest first
FilteredNeighbours(query) ==
    SelectSeq(IndexSearch(index[1], query.text, 3 * query.limit),
              LAMBDA idx :
                  /\ idx >= 0
                  /\ \E p \in 1..Len(metadata.vectors) :
                        /\ metadata.vectors[p].id = index[1][idx + 1]
                        /\ Passes(metadata.vectors[p], query))

StartedEmpty == rebuild_pc # "idle" \/ index_file = <<>> \/ metadata_file = <<>>

\* C29: on a knowledge base whose index started empty, after every call of
\* add_to_vector_index, failed or not, and every reset of the index, the
\* index holds as many vectors as metadata["cve_ids"] holds ids and
\* metadata["vectors"] holds entries, and the id and the entry at a position
\* are those of the record whose vector is at that position of the index.
C29_IndexAndMetadataInStep ==
    (StartedEmpty /\ index # <<>>) =>
        /\ Len(index[1]) = Len(metadata.cve_ids)
        /\ Len(index[1]) = Len(metadata.vectors)
        /\ \A p \in 1..Len(index[1]) :
              /\ metadata.cve_ids[p] = index[1][p]
              /\ metadata.vectors[p].id = index[1][p]
              /\ metadata.vectors[p].cve_id = index[1][p]

\* After a reset the call for the first record failed and the call for the
\* second succeeded
C29_Witness ==
    /\ rebuild_pc = "done"
    /\ Len(cve_records) = 2
    /\ index = <<<<cve_records[2]>>>>
    /\ metadata.cve_ids = <<cve_records[2]>>

\* The number of vectors in the index differs from the number of rows
IndexStale == index # <<>> /\ Len(index[1]) # Cardinality(store)

\* A search returns in this step
SearchReturns == last_search' # <<>> /\ last_search' # last_search

\* C14: while the number of entries of the index differs from the number of
\* records of the store, a search is not answered from the index: it is
\* answered by the lexical search.
C14_StaleIndexNotUsed ==
    [][(IndexStale /\ SearchReturns) => last_search'[1].path = "lexical"]_vars

\* C15: from the start of a rebuild on, also after it has failed, the index
\* in memory with its metadata, and the index file with its metadata file,
\* are each a matching pair that holds either what it held before the rebuild
\* or all the records of the rebuild.
C15_RebuildAtomicForReaders ==
    rebuild_pc # "idle" =>
        /\ index[1] = metadata.cve_ids
        /\ index \in {before_rebuild[1].index, <<cve_records>>}
        /\ (index_file = <<>>) = (metadata_file = <<>>)
        /\ index_file # <<>> => index_file[1] = metadata_file[1].cve_ids
        /\ index_file \in {before_rebuild[1].index_file, <<cve_records>>}

\* C16: a search changes neither the store nor the index nor any entry of the
\* metadata, in memory or in the files.
C16_SearchIsReadOnly ==
    [][SearchReturns =>
          /\ store' = store
          /\ index' = index
          /\ metadata' = metadata
          /\ index_file' = index_file
          /\ metadata_file' = metadata_file]_vars

====
